---- MODULE Spec2Model ----
(***************************************************************************)
(* GenAILiveClient (lib/genai-live-client.ts): the connection / session    *)
(* lifecycle manager of the live API web console, as a state machine.      *)
(*                                                                         *)
(* The JavaScript runtime is single threaded: every handler below runs to  *)
(* its next await (or to its end) as one atomic action.  The transport     *)
(* (the @google/genai live session and its web socket) is the environment: *)
(* a socket that connect() asked for opens, or its promise rejects, or it  *)
(* closes before it opened, at any later time; an open socket delivers     *)
(* messages and closes with any code at any time.  client.live.connect()   *)
(* resolves in the task that runs the onopen callback, so the callback and *)
(* the continuation of connect() are one action.                           *)
(***************************************************************************)
EXTENDS Naturals, Sequences, FiniteSets, Bags, TLC

\* ------------------------------------------------------------ constants
MAX_RECONNECT_ATTEMPTS == 5
RECONNECT_BASE_DELAY == 1000
RECONNECT_MAX_DELAY == 30000
JITTER_MAX == 1000
RECONNECT_CODES == {1005, 1006, 1011, 1012, 1013, 1014}
NORMAL_CLOSE == 1000
GOING_AWAY == 1001

\* ------------------------------------------------------------ bounds
\* transport sessions at once that are not closed or are still awaited
MaxSockets == 2
\* the parts of one model turn
MaxParts == 3

Null == "null"
Handles == {"H1", "H2"}
\* what the application connects to, and what it may connect to in SpecParams
Models == {"m1"}
Configs == {"c1"}
ModelsP == {"m1", "m2"}
ConfigsP == {"c1", "c2"}
POLICY_VIOLATION == 1008
ABNORMAL_CLOSURE == 1006
\* the codes the transport reports here: the two clean codes, one code of the
\* transient set and one code of neither kind
CloseCodes == {NORMAL_CLOSE, GOING_AWAY, ABNORMAL_CLOSURE, POLICY_VIOLATION}
Statuses == {"disconnected", "connecting", "connected"}
\* every code the close handler tells apart
AllCodes == RECONNECT_CODES \cup {NORMAL_CLOSE, GOING_AWAY, POLICY_VIOLATION}
\* samples of Math.random() * 1000, which lies in [0, 1000)
Jitters == {0, JITTER_MAX - 1}

VARIABLES
    status,             \* _status
    sessionHandle,      \* _sessionHandle
    sessionResumable,   \* _sessionResumable
    reconnectAttempts,  \* _reconnectAttempts
    reconnectTimeout,   \* _reconnectTimeout: a timeout id, 0 for null, Fired
                        \* for the id of a timeout that has fired
    keepAliveInterval,  \* _keepAliveInterval: an interval id, 0 for null
    sessionStorage,     \* _sessionStorage.get('gemini_session_handle')
    model,              \* _model
    config,             \* config
    session,            \* _session: "null", "live" (the held socket) or
                        \* "dead" (a session whose socket has closed)
    localStorage,       \* localStorage['gemini_session_handle']
    storageDenied,      \* every access to localStorage throws
    timeouts,           \* ids of the setTimeout timers not yet fired or cleared
    intervals,          \* ids of the setInterval timers not yet cleared
    sockets,            \* the bag of transport sessions that are not closed
                        \* or are still awaited by a connect() call
    last,               \* what the handler that ran last returned, emitted and did
    intent              \* the application's last call, "connect" or "disconnect":
                        \* history, which SpecApp alone records

vars == <<status, sessionHandle, sessionResumable, reconnectAttempts,
          reconnectTimeout, keepAliveInterval, sessionStorage, model, config,
          session, localStorage, storageDenied, timeouts, intervals, sockets,
          last, intent>>

\* timer ids: a reconnect timeout is armed by a rejected attempt only, so
\* there are never more of them than transport sessions
TimerIds == 1..MaxSockets
\* the id of a timeout that has fired: not null, and clearing it does nothing
Fired == MaxSockets + 1

\* ------------------------------------------------------------ helpers
Min(S) == CHOOSE x \in S : \A y \in S : x <= y

RECURSIVE Pow2(_)
Pow2(n) == IF n = 0 THEN 1 ELSE 2 * Pow2(n - 1)

\* the smallest id of `ids` not in `used`, 0 when there is none
Fresh(ids, used) == IF ids \ used = {} THEN 0 ELSE Min(ids \ used)

\* A server message: each field is a record with `present`.  A flag of the
\* server content is "undefined", "false" or "true"; a part has a tag that
\* names it, inline (it carries inlineData), its mimeType and its data ("ok",
\* "bad": not base64, "": none).
NoUpdate == [present |-> FALSE, resumable |-> FALSE, newHandle |-> Null]
NoContent ==
    [present |-> FALSE, interrupted |-> "undefined", turnComplete |-> "undefined",
     generationComplete |-> "undefined", hasParts |-> FALSE, parts |-> <<>>]
NoMessage ==
    [sessionResumptionUpdate |-> NoUpdate, goAway |-> FALSE,
     setupComplete |-> FALSE, toolCall |-> FALSE,
     toolCallCancellation |-> FALSE, serverContent |-> NoContent]

\* What an event carries: the close code of 'close', the update of
\* 'sessionresumptionupdate', the data of 'audio' (the tag of its part), the
\* parts of 'content'; the other events carry nothing.
NoArg == [code |-> 0, update |-> NoUpdate, data |-> "", parts |-> <<>>]
WithCode(code) == [NoArg EXCEPT !.code = code]
WithUpdate(update) == [NoArg EXCEPT !.update = update]
WithData(tag) == [NoArg EXCEPT !.data = tag]
WithParts(parts) == [NoArg EXCEPT !.parts = parts]

\* The client's fields and its environment as one record, with the outputs of
\* the handler that is running (ret, threw, emitted, opened, armed, reconnect,
\* sent, warned; msg and arg are its argument) and ok,
\* which is FALSE when the handler needs more sockets or timers than the bounds.
Begin ==
    [status |-> status, sessionHandle |-> sessionHandle,
     sessionResumable |-> sessionResumable,
     reconnectAttempts |-> reconnectAttempts,
     reconnectTimeout |-> reconnectTimeout,
     keepAliveInterval |-> keepAliveInterval,
     sessionStorage |-> sessionStorage, model |-> model, config |-> config,
     session |-> session, localStorage |-> localStorage,
     storageDenied |-> storageDenied, timeouts |-> timeouts,
     intervals |-> intervals, sockets |-> sockets,
     ok |-> TRUE, ret |-> "none", threw |-> FALSE, emitted |-> <<>>,
     opened |-> <<>>, armed |-> <<>>, reconnect |-> FALSE, sent |-> <<>>,
     msg |-> NoMessage, warned |-> FALSE, bad |-> {}, exc |-> FALSE,
     arg |-> <<>>]

\* EventEmitter.emit: the listeners of `type` run inside the call.  bad is
\* the set of event types that have a listener which throws, exc says that an
\* exception is on its way to the nearest catch: the code it passes does not
\* run.  An event is recorded when its listeners returned.
emit(s, type, arg) ==
    IF s.exc THEN s
    ELSE IF type \in s.bad THEN [s EXCEPT !.exc = TRUE]
    ELSE [s EXCEPT !.emitted = Append(@, [type |-> type, arg |-> arg])]

\* log(): a 'log' event, which is not recorded
log(s) ==
    IF s.exc THEN s
    ELSE IF "log" \in s.bad THEN [s EXCEPT !.exc = TRUE]
    ELSE s

\* A transport session is a record of the bag `sockets`: st is the state of
\* its socket ("opening", "open", "closing": close() was called, "closed",
\* "failed": closed before it opened), call the connect() call that awaits
\* client.live.connect() for it ("user", "reconnect", "none"), held whether
\* _session refers to it.  A closed socket that no call awaits is dropped, and
\* _session, if it refers to it, is left "dead".
take(s, r) == [s EXCEPT !.sockets = @ (-) SetToBag({r})]

put(s, r) ==
    IF r.st \in {"closed", "failed"} /\ r.call = "none"
    THEN IF r.held THEN [s EXCEPT !.session = "dead"] ELSE s
    ELSE [s EXCEPT !.sockets = @ (+) SetToBag({r})]

\* the socket r of the bag replaced by q
swap(s, r, q) == put(take(s, r), q)

\* ------------------------------------------------------------ handle store
\* a write whose catch block leaves the map alone
setSessionHandleNoFallback(s, handle, quota) ==
    LET throws == s.storageDenied \/ (handle # Null /\ quota)
    IN  [s EXCEPT !.sessionHandle = handle,
                  !.localStorage = IF throws THEN @ ELSE handle,
                  !.sessionStorage = IF throws THEN @ ELSE handle,
                  !.warned = @ \/ throws]

\* _setSessionHandle: setItem throws when storage is denied or the quota is
\* exceeded, removeItem when storage is denied; the catch warns on the
\* console and writes the map
setSessionHandle(s, handle, quota) ==
    LET throws == s.storageDenied \/ (handle # Null /\ quota)
    IN  [s EXCEPT !.sessionHandle = handle,
                  !.localStorage = IF throws THEN @ ELSE handle,
                  !.sessionStorage = handle,
                  !.warned = @ \/ throws]

\* _getSessionHandle
getSessionHandle(ls, mem, denied) ==
    IF denied THEN mem
    ELSE IF ls # Null THEN ls ELSE mem

\* ------------------------------------------------------------ heartbeat
stopKeepAlive(s) ==
    IF s.keepAliveInterval # 0
    THEN [s EXCEPT !.intervals = @ \ {s.keepAliveInterval},
                   !.keepAliveInterval = 0]
    ELSE s

\* a start that does not stop the interval already running
startKeepAliveNoStop(s) ==
    LET id == Fresh(TimerIds, s.intervals)
    IN  IF id = 0 THEN [s EXCEPT !.ok = FALSE]
        ELSE [s EXCEPT !.intervals = @ \cup {id}, !.keepAliveInterval = id]

startKeepAlive(s) ==
    LET t == stopKeepAlive(s)
        id == Fresh(TimerIds, t.intervals)
    IN  IF id = 0 THEN [t EXCEPT !.ok = FALSE]
        ELSE [t EXCEPT !.intervals = @ \cup {id}, !.keepAliveInterval = id]

\* ------------------------------------------------------------ connect
\* a guard that forgets the connected client
connectRejectedOnlyConnecting(st, isReconnect) == st = "connecting"

\* the guard of connect(): the call is rejected
connectRejected(st, isReconnect) ==
    st = "connecting" \/ (st = "connected" /\ ~isReconnect)

\* the handle read from the in-memory map instead of the field
resumptionHandleFromMap(s) == s.sessionStorage

\* sessionResumption of the enhanced config: the handle handed to the transport
resumptionHandle(s) == s.sessionHandle

\* connect() up to its await of client.live.connect()
connect(s, m, c, isReconnect) ==
    IF connectRejected(s.status, isReconnect)
    THEN [s EXCEPT !.ret = "false"]
    ELSE IF BagCardinality(s.sockets) >= MaxSockets
    THEN [s EXCEPT !.ok = FALSE]
    ELSE put([s EXCEPT
                !.status = "connecting",
                !.config = c,
                !.model = m,
                !.opened = Append(@, [model |-> m, config |-> c,
                                      handle |-> resumptionHandle(s),
                                      isReconnect |-> isReconnect]),
                !.ret = "pending"],
             [st |-> "opening",
              call |-> IF isReconnect THEN "reconnect" ELSE "user",
              held |-> FALSE])

\* _session.close(): an open socket starts closing, its onclose comes later
closeSession(s) ==
    LET held == {q \in BagToSet(s.sockets) : q.held}
    IN  IF s.session = "live" /\ held # {}
        THEN LET q == CHOOSE q \in held : TRUE
             IN  IF q.st = "open" THEN swap(s, q, [q EXCEPT !.st = "closing"])
                 ELSE s
        ELSE s

\* _session = null
dropSession(s) ==
    LET held == {q \in BagToSet(s.sockets) : q.held}
        a == IF held = {} THEN s
             ELSE LET q == CHOOSE q \in held : TRUE
                  IN  swap(s, q, [q EXCEPT !.held = FALSE])
    IN  [a EXCEPT !.session = "null"]

\* connect() after client.live.connect() resolved with the session of the
\* socket r: _session = that session, whatever session was held before
connectResolved(s, r) ==
    [swap([dropSession(s) EXCEPT !.session = "live"], r,
          [r EXCEPT !.call = "none", !.held = TRUE])
     EXCEPT !.ret = "true"]

\* a catch block that clears the session whoever made the call
connectCatchAlwaysClears(s, isReconnect) ==
    [setSessionHandle([s EXCEPT !.status = "disconnected", !.threw = TRUE],
                      Null, FALSE)
     EXCEPT !.sessionResumable = FALSE]

\* the catch block of connect()
connectCatch(s, isReconnect) ==
    LET t == [s EXCEPT !.status = "disconnected", !.threw = TRUE]
    IN  IF ~isReconnect
        THEN [setSessionHandle(t, Null, FALSE) EXCEPT !.sessionResumable = FALSE]
        ELSE t

\* ------------------------------------------------------------ reconnect
\* clearTimeout(_reconnectTimeout); _reconnectTimeout = null
clearReconnectTimeout(s) ==
    IF s.reconnectTimeout # 0
    THEN [s EXCEPT !.timeouts = @ \ {s.reconnectTimeout},
                   !.reconnectTimeout = 0]
    ELSE s

\* a ceiling test that is late by one
attemptsExhaustedLate(n) == n > MAX_RECONNECT_ATTEMPTS

\* the ceiling test of _reconnect
attemptsExhausted(n) == n >= MAX_RECONNECT_ATTEMPTS

\* a delay whose exponent is off by one
baseDelayOffByOne(n) ==
    LET d == RECONNECT_BASE_DELAY * Pow2(n)
    IN  IF d < RECONNECT_MAX_DELAY THEN d ELSE RECONNECT_MAX_DELAY

\* Math.min(RECONNECT_MAX_DELAY, RECONNECT_BASE_DELAY * 2^(n-1))
baseDelay(n) ==
    LET d == RECONNECT_BASE_DELAY * Pow2(n - 1)
    IN  IF d < RECONNECT_MAX_DELAY THEN d ELSE RECONNECT_MAX_DELAY

\* a _reconnect that gives up without resetting the counter
reconnectKeepsCounter(s0) ==
    LET s == [s0 EXCEPT !.reconnect = TRUE]
    IN
    IF s.status = "connected" THEN s
    ELSE LET t == clearReconnectTimeout(s)
         IN  IF attemptsExhausted(t.reconnectAttempts)
             THEN [setSessionHandle(t, Null, FALSE) EXCEPT !.ret = "gaveup"]
             ELSE IF t.model # Null /\ t.config # Null
             THEN LET c == connect(t, t.model, t.config, TRUE)
                  IN  IF c.ret = "false"
                      THEN [c EXCEPT !.reconnectAttempts = 0]
                      ELSE c
             ELSE t

\* _reconnect() up to its await of connect(), and what follows a false return
reconnect(s0) ==
    LET s == [s0 EXCEPT !.reconnect = TRUE]
    IN
    IF s.status = "connected" THEN s
    ELSE LET t == clearReconnectTimeout(s)
         IN  IF attemptsExhausted(t.reconnectAttempts)
             THEN [setSessionHandle(t, Null, FALSE) EXCEPT
                     !.reconnectAttempts = 0, !.ret = "gaveup"]
             ELSE IF t.model # Null /\ t.config # Null
             THEN LET c == connect(t, t.model, t.config, TRUE)
                  IN  IF c.ret = "false"
                      THEN [c EXCEPT !.reconnectAttempts = 0]
                      ELSE c
             ELSE t

\* the catch block of _reconnect: the counter, the delay and the timer
reconnectCatch(s, jitter) ==
    LET n == s.reconnectAttempts + 1
        id == Fresh(TimerIds, s.timeouts)
    IN  IF id = 0 THEN [s EXCEPT !.ok = FALSE]
        ELSE [s EXCEPT
                !.reconnectAttempts = n,
                !.timeouts = @ \cup {id},
                !.reconnectTimeout = id,
                !.armed = Append(@, [n |-> n, base |-> baseDelay(n),
                                     delay |-> baseDelay(n) + jitter])]

\* ------------------------------------------------------------ disconnect
disconnect(s) ==
    LET a == clearReconnectTimeout(stopKeepAlive(s))
        b == IF a.session # "null" THEN dropSession(closeSession(a)) ELSE a
        c == IF b.status # "disconnected"
             THEN emit([b EXCEPT !.status = "disconnected"], "close",
                       WithCode(NORMAL_CLOSE))
             ELSE b
    IN  [c EXCEPT !.ret = "true"]

\* ------------------------------------------------------------ callbacks
onopen(s) ==
    emit(startKeepAlive([s EXCEPT !.status = "connected",
                                  !.reconnectAttempts = 0]),
         "open", NoArg)

\* a decision that looks at the code before the previous status
shouldReconnectCodeFirst(s, code, previousStatus) ==
    IF code \in RECONNECT_CODES THEN TRUE
    ELSE IF previousStatus = "connecting" THEN FALSE
    ELSE IF code = NORMAL_CLOSE \/ code = GOING_AWAY THEN FALSE
    ELSE s.sessionHandle # Null \/ (s.config # Null /\ s.model # Null)

shouldReconnectOnClose(s, code, previousStatus) ==
    IF previousStatus = "connecting" THEN FALSE
    ELSE IF code \in RECONNECT_CODES THEN TRUE
    ELSE IF code = NORMAL_CLOSE \/ code = GOING_AWAY THEN FALSE
    ELSE s.sessionHandle # Null \/ (s.config # Null /\ s.model # Null)

\* a close handler that leaves the session alone after a normal closure
oncloseKeepsSession(s, code) ==
    LET a == stopKeepAlive(s)
        previousStatus == a.status
        b == emit([a EXCEPT !.status = "disconnected"], "close", WithCode(code))
    IN  IF /\ shouldReconnectOnClose(b, code, previousStatus)
           /\ (b.sessionHandle # Null \/ b.config # Null)
        THEN reconnect(b)
        ELSE b

onclose(s, code) ==
    LET a == stopKeepAlive(s)
        previousStatus == a.status
        b == emit([a EXCEPT !.status = "disconnected"], "close", WithCode(code))
    IN  IF /\ shouldReconnectOnClose(b, code, previousStatus)
           /\ (b.sessionHandle # Null \/ b.config # Null)
        THEN reconnect(b)
        ELSE IF code = NORMAL_CLOSE \/ code = GOING_AWAY
        THEN [setSessionHandle(b, Null, FALSE) EXCEPT !.sessionResumable = FALSE]
        ELSE b

\* ------------------------------------------------------------ messages
\* p.inlineData && p.inlineData.mimeType?.startsWith("audio/")
isAudioPart(p) == p.inline /\ p.mime \in {"audio/pcm", "audio/wav"}
isOtherPart(p) == ~isAudioPart(p)

\* an audio part is emitted whatever its data
onAudioPartAlways(s, p) ==
    IF s.exc THEN s
    ELSE LET e == emit(s, "audio", WithData(p.tag))
         IN  IF e.exc THEN log(s) ELSE log(e)

\* one audio part of audioParts.forEach: a part without data is skipped; the
\* decoding, the emission and the log are in a try whose catch logs
\* an audio part handled without the try block around its decoding
onAudioPartNoCatch(s, p) ==
    IF s.exc \/ p.data = "" THEN s
    ELSE IF p.data = "bad" THEN [s EXCEPT !.exc = TRUE]
    ELSE LET e == emit(s, "audio", WithData(p.tag))
         IN  IF e.exc THEN log(s) ELSE log(e)

onAudioPart(s, p) ==
    IF s.exc \/ p.data = "" THEN s
    ELSE IF p.data = "bad" THEN log(s)
    ELSE LET e == emit(s, "audio", WithData(p.tag))
         IN  IF e.exc THEN log(s) ELSE log(e)

RECURSIVE emitAudio(_, _)
emitAudio(s, audioParts) ==
    IF audioParts = <<>> THEN s
    ELSE emitAudio(onAudioPart(s, Head(audioParts)), Tail(audioParts))

\* an update that is not resumable resets the flag and keeps the handle
onResumptionUpdateKeepsHandle(s, update, quota) ==
    IF s.exc THEN s
    ELSE
    LET a == IF update.resumable /\ update.newHandle # Null
             THEN LET w == IF s.sessionHandle # update.newHandle
                           THEN log(setSessionHandle(s, update.newHandle, quota))
                           ELSE s
                  IN  IF w.exc THEN w ELSE [w EXCEPT !.sessionResumable = TRUE]
             ELSE log([s EXCEPT !.sessionResumable = FALSE])
    IN  emit(a, "sessionresumptionupdate", WithUpdate(update))

\* the session resumption update of a message
onResumptionUpdate(s, update, quota) ==
    IF s.exc THEN s
    ELSE
    LET a == IF update.resumable /\ update.newHandle # Null
             THEN LET w == IF s.sessionHandle # update.newHandle
                           THEN log(setSessionHandle(s, update.newHandle, quota))
                           ELSE s
                  IN  IF w.exc THEN w ELSE [w EXCEPT !.sessionResumable = TRUE]
             ELSE log([setSessionHandle(s, Null, FALSE) EXCEPT
                         !.sessionResumable = FALSE])
    IN  emit(a, "sessionresumptionupdate", WithUpdate(update))

\* the server content of a message
onServerContent(s, sc) ==
    LET a == IF sc.interrupted # "undefined"
             THEN emit(log(s), "interrupted", NoArg) ELSE s
        b == IF sc.turnComplete # "undefined"
             THEN emit(log(a), "turncomplete", NoArg) ELSE a
        c == IF sc.generationComplete = "true"
             THEN emit(log(b), "generationcomplete", NoArg) ELSE b
    IN  IF sc.hasParts
        THEN LET audioParts == SelectSeq(sc.parts, isAudioPart)
                 otherParts == SelectSeq(sc.parts, isOtherPart)
                 d == emitAudio(c, audioParts)
             IN  IF Len(otherParts) > 0
                 THEN log(emit(d, "content", WithParts(otherParts)))
                 ELSE d
        ELSE c

\* a try block that goes on to the content after a tool call
onmessageTryNoReturn(s, message, quota) ==
    LET r == log(s)
        a == IF message.sessionResumptionUpdate.present
             THEN onResumptionUpdate(r, message.sessionResumptionUpdate, quota)
             ELSE r
        b == IF message.goAway THEN emit(log(a), "goaway", NoArg) ELSE a
        c == IF message.setupComplete THEN emit(log(b), "setupcomplete", NoArg) ELSE b
        d == IF message.toolCall THEN emit(log(c), "toolcall", NoArg) ELSE c
    IN  IF message.toolCallCancellation
        THEN emit(log(d), "toolcallcancellation", NoArg)
        ELSE IF message.serverContent.present
        THEN onServerContent(d, message.serverContent)
        ELSE d

\* the try block of onmessage
onmessageTry(s, message, quota) ==
    LET r == log(s)
        a == IF message.sessionResumptionUpdate.present
             THEN onResumptionUpdate(r, message.sessionResumptionUpdate, quota)
             ELSE r
        b == IF message.goAway THEN emit(log(a), "goaway", NoArg) ELSE a
        c == IF message.setupComplete THEN emit(log(b), "setupcomplete", NoArg) ELSE b
    IN  IF message.toolCall THEN emit(log(c), "toolcall", NoArg)
        ELSE IF message.toolCallCancellation
        THEN emit(log(c), "toolcallcancellation", NoArg)
        ELSE IF message.serverContent.present
        THEN onServerContent(c, message.serverContent)
        ELSE c

\* onmessage: an exception of the try block is caught and logged; the handler
\* is async, so an exception of that log rejects the promise it returns
onmessage(s, message, quota) ==
    LET b == onmessageTry(s, message, quota)
    IN  IF b.exc
        THEN LET c == log([b EXCEPT !.exc = FALSE])
             IN  [c EXCEPT !.exc = FALSE, !.threw = c.exc]
        ELSE b

\* ------------------------------------------------------------ sending
\* A call of the transport session is recorded in `sent` with its payload and
\* whether it threw.  A method that is not async hands an exception that no
\* catch took to its caller.
transportCall(s, call, payload, throws) ==
    [s EXCEPT !.sent = Append(@, [call |-> call, payload |-> payload,
                                  threw |-> throws])]

toCaller(s) == [s EXCEPT !.threw = s.exc, !.exc = FALSE]

\* the loop of sendRealtimeInput from chunk i on; fails holds the positions
\* of the chunks at which the transport throws
RECURSIVE sendChunks(_, _, _, _)
sendChunks(s, chunks, fails, i) ==
    IF i > Len(chunks) \/ s.exc THEN s
    ELSE LET a == transportCall(s, "sendRealtimeInput", chunks[i], i \in fails)
             b == IF i \in fails THEN log(a) ELSE a
         IN  sendChunks(b, chunks, fails, i + 1)

sendRealtimeInput(s, chunks, fails) ==
    IF s.session = "null" \/ s.status # "connected"
    THEN toCaller(log(s))
    ELSE LET a == sendChunks(s, chunks, fails, 1)
         IN  toCaller(IF Len(chunks) > 0 THEN log(a) ELSE a)

\* functionResponses is a sequence, <<>> also for a response without the field
sendToolResponse(s, functionResponses, throws) ==
    IF s.session = "null" \/ s.status # "connected"
    THEN toCaller(log(s))
    ELSE IF Len(functionResponses) > 0
    THEN LET a == transportCall(s, "sendToolResponse", functionResponses, throws)
             b == IF throws THEN a ELSE log(a)
         IN  toCaller(IF throws \/ b.exc THEN log([a EXCEPT !.exc = FALSE])
                      ELSE b)
    ELSE toCaller(log(s))

send(s, parts, turnComplete, throws) ==
    IF s.session = "null" \/ s.status # "connected"
    THEN toCaller(log(s))
    ELSE IF Len(parts) = 0 /\ ~turnComplete
    THEN toCaller(log(s))
    ELSE LET a == transportCall(s, "sendClientContent",
                                [parts |-> parts, turnComplete |-> turnComplete],
                                throws)
             b == IF throws THEN a ELSE log(a)
         IN  toCaller(IF throws \/ b.exc THEN log([a EXCEPT !.exc = FALSE])
                      ELSE b)

\* ------------------------------------------------------------ other calls
\* the interval callback; `throws`: sendClientContent throws
keepAliveTick(s, throws) ==
    IF s.status = "connected" /\ s.session # "null"
    THEN IF throws THEN [stopKeepAlive(s) EXCEPT !.ret = "failed"]
         ELSE [s EXCEPT !.ret = "sent"]
    ELSE s

getSessionInfo(s) ==
    [handle |-> s.sessionHandle, resumable |-> s.sessionResumable,
     status |-> s.status, reconnectAttempts |-> s.reconnectAttempts]

forceReconnect(s) ==
    IF s.status = "connected" /\ s.session # "null"
    THEN [closeSession(s) EXCEPT !.ret = "closed"]
    ELSE s

clearSession(s) ==
    [setSessionHandle(s, Null, FALSE) EXCEPT !.sessionResumable = FALSE]

\* destroy(): disconnect, and the in-memory map is cleared
destroy(s) == [disconnect(s) EXCEPT !.sessionStorage = Null]

\* ------------------------------------------------------------ state machine
\* the handler's result becomes the next state
Apply(s, op) ==
    /\ s.ok
    /\ status' = s.status
    /\ sessionHandle' = s.sessionHandle
    /\ sessionResumable' = s.sessionResumable
    /\ reconnectAttempts' = s.reconnectAttempts
    /\ reconnectTimeout' = s.reconnectTimeout
    /\ keepAliveInterval' = s.keepAliveInterval
    /\ sessionStorage' = s.sessionStorage
    /\ model' = s.model
    /\ config' = s.config
    /\ session' = s.session
    /\ localStorage' = s.localStorage
    /\ storageDenied' = s.storageDenied
    /\ timeouts' = s.timeouts
    /\ intervals' = s.intervals
    /\ sockets' = s.sockets
    /\ last' = [op |-> op, ret |-> s.ret, threw |-> s.threw,
                emitted |-> s.emitted, opened |-> s.opened, armed |-> s.armed,
                reconnect |-> s.reconnect, sent |-> s.sent, msg |-> s.msg,
                warned |-> s.warned, arg |-> s.arg]

NoLast ==
    [op |-> "new", ret |-> "none", threw |-> FALSE, emitted |-> <<>>,
     opened |-> <<>>, armed |-> <<>>, reconnect |-> FALSE, sent |-> <<>>,
     msg |-> NoMessage, warned |-> FALSE, arg |-> <<>>]

\* the constructor: the handle is read from the store, which holds the
\* handle of an earlier run of the page or nothing
InitWith(denied) ==
    /\ storageDenied \in denied
    /\ localStorage \in (IF storageDenied THEN {Null} ELSE {Null, "H1"})
    /\ sessionStorage = Null
    /\ sessionHandle = getSessionHandle(localStorage, sessionStorage, storageDenied)
    /\ sessionResumable = FALSE
    /\ reconnectAttempts = 0
    /\ reconnectTimeout = 0
    /\ keepAliveInterval = 0
    /\ model = Null
    /\ config = Null
    /\ status = "disconnected"
    /\ session = "null"
    /\ timeouts = {}
    /\ intervals = {}
    /\ sockets = EmptyBag
    /\ last = NoLast
    /\ intent = "none"

\* the durable store works
Init == InitWith({FALSE})

Sockets == BagToSet(sockets)

\* connect(model, config) called by the application
Connect(m, c) == Apply(connect(Begin, m, c, FALSE), "connect")

\* disconnect() called by the application
Disconnect == Apply(disconnect(Begin), "disconnect")

\* the transport opened the socket r: the onopen callback, and then connect()
\* (and _reconnect(), if it made the call) goes on after its await
TransportOpen(r) ==
    /\ r.st = "opening"
    /\ LET o == [r EXCEPT !.st = "open"]
           a == connectResolved(onopen(swap(Begin, r, o)), o)
       IN  Apply(IF r.call = "reconnect"
                 THEN [a EXCEPT !.reconnectAttempts = 0]
                 ELSE a,
                 "onopen")

\* client.live.connect() rejected: the socket r never opened
ConnectReject(r, jitter) ==
    /\ r.call # "none"
    /\ r.st \in {"opening", "failed"}
    /\ LET a == connectCatch(take(Begin, r), r.call = "reconnect")
       IN  Apply(IF r.call = "reconnect" THEN reconnectCatch(a, jitter) ELSE a,
                 "reject")

\* the transport closed the socket r: the onclose callback
TransportClose(r, code) ==
    /\ r.st \in {"opening", "open", "closing"}
    /\ Apply(onclose(swap(Begin, r,
                          [r EXCEPT !.st = IF r.st = "opening" THEN "failed"
                                           ELSE "closed"]),
                     code),
             "onclose")

\* the reconnect timeout id fired: its callback runs _reconnect
ReconnectTimer(id) ==
    /\ id \in timeouts
    /\ Apply(reconnect([Begin EXCEPT
                          !.timeouts = @ \ {id},
                          !.reconnectTimeout = IF @ = id THEN Fired ELSE @]),
             "timer")

\* the socket r delivered a message: the onmessage callback
OnMessage(r, message, quota) ==
    /\ r.st \in {"open", "closing"}
    /\ Apply(onmessage([Begin EXCEPT !.msg = message], message, quota),
             "onmessage")

\* the heartbeat interval id ticked
KeepAliveTick(id, throws) ==
    /\ id \in intervals
    /\ Apply(keepAliveTick(Begin, throws), "keepalive")

ForceReconnect == Apply(forceReconnect(Begin), "forceReconnect")

ClearSession == Apply(clearSession(Begin), "clearSession")

Destroy == Apply(destroy(Begin), "destroy")

\* the resumption updates a server sends: a new handle, or not resumable
UpdateMessages ==
    {[NoMessage EXCEPT !.sessionResumptionUpdate =
         [present |-> TRUE, resumable |-> h # Null, newHandle |-> h]] :
       h \in Handles \cup {Null}}

\* a step that is no call of the application, or whose call is not recorded
Quiet == UNCHANGED intent

Next ==
    \/ Quiet /\ \E m \in Models, c \in Configs : Connect(m, c)
    \/ Quiet /\ Disconnect
    \/ Quiet /\ \E r \in Sockets : TransportOpen(r)
    \/ Quiet /\ \E r \in Sockets, j \in Jitters : ConnectReject(r, j)
    \/ Quiet /\ \E r \in Sockets, code \in CloseCodes : TransportClose(r, code)
    \/ Quiet /\ \E id \in TimerIds : ReconnectTimer(id)
    \/ Quiet /\ \E r \in Sockets, message \in UpdateMessages :
                  OnMessage(r, message, FALSE)
    \/ Quiet /\ \E id \in TimerIds, throws \in BOOLEAN : KeepAliveTick(id, throws)
    \/ Quiet /\ ForceReconnect
    \/ Quiet /\ ClearSession
    \/ Quiet /\ Destroy

Spec == Init /\ [][Next]_vars

\* the connection life cycle alone, with more than one model and config
NextParams ==
    \/ Quiet /\ \E m \in ModelsP, c \in ConfigsP : Connect(m, c)
    \/ Quiet /\ Disconnect
    \/ Quiet /\ \E r \in Sockets : TransportOpen(r)
    \/ Quiet /\ \E r \in Sockets, j \in Jitters : ConnectReject(r, j)
    \/ Quiet /\ \E r \in Sockets, code \in CloseCodes : TransportClose(r, code)
    \/ Quiet /\ \E id \in TimerIds : ReconnectTimer(id)

SpecParams == Init /\ [][NextParams]_vars

\* the connection life cycle with the application's last call recorded
NextApp ==
    \/ intent' = "connect" /\ \E m \in Models, c \in Configs : Connect(m, c)
    \/ intent' = "disconnect" /\ Disconnect
    \/ Quiet /\ \E r \in Sockets : TransportOpen(r)
    \/ Quiet /\ \E r \in Sockets, j \in Jitters : ConnectReject(r, j)
    \/ Quiet /\ \E r \in Sockets, code \in CloseCodes : TransportClose(r, code)
    \/ Quiet /\ \E id \in TimerIds : ReconnectTimer(id)

SpecApp == Init /\ [][NextApp]_vars

\* An established session: the state Spec is in after connect("m1", "c1") and
\* the transport's open.
Established ==
    /\ storageDenied = FALSE
    /\ localStorage \in {Null, "H1"}
    /\ sessionStorage = Null
    /\ sessionHandle = localStorage
    /\ sessionResumable = FALSE
    /\ reconnectAttempts = 0
    /\ reconnectTimeout = 0
    /\ keepAliveInterval = 1
    /\ intervals = {1}
    /\ model = "m1"
    /\ config = "c1"
    /\ status = "connected"
    /\ session = "live"
    /\ timeouts = {}
    /\ sockets = SetToBag({[st |-> "open", call |-> "none", held |-> TRUE]})
    /\ last = [NoLast EXCEPT !.op = "onopen", !.ret = "true",
                             !.emitted = <<[type |-> "open", arg |-> NoArg]>>]
    /\ intent = "none"

\* From an established session on, the network is down and the application
\* idle: no socket opens any more, every attempt is rejected in the end and
\* every timer fires in the end.
NextDown ==
    \/ Quiet /\ \E r \in Sockets, j \in Jitters : ConnectReject(r, j)
    \/ Quiet /\ \E r \in Sockets, code \in CloseCodes : TransportClose(r, code)
    \/ Quiet /\ \E id \in TimerIds : ReconnectTimer(id)
    \/ Quiet /\ \E r \in Sockets, message \in UpdateMessages :
                  OnMessage(r, message, FALSE)
    \/ Quiet /\ \E id \in TimerIds, throws \in BOOLEAN : KeepAliveTick(id, throws)

SpecDown ==
    /\ Established
    /\ [][NextDown]_vars
    /\ WF_vars(Quiet /\ \E r \in Sockets, j \in Jitters : ConnectReject(r, j))
    /\ WF_vars(Quiet /\ \E id \in TimerIds : ReconnectTimer(id))

\* ------------------------------------------------------------ messages
\* the parts a model turn is made of: audio with data, audio without data,
\* audio whose data is not base64, text, and an inline image
AudioPcm == [tag |-> "a1", inline |-> TRUE, mime |-> "audio/pcm", data |-> "ok"]
AudioWav == [tag |-> "a2", inline |-> TRUE, mime |-> "audio/wav", data |-> "ok"]
AudioEmpty == [tag |-> "a3", inline |-> TRUE, mime |-> "audio/pcm", data |-> ""]
AudioBad == [tag |-> "a4", inline |-> TRUE, mime |-> "audio/pcm", data |-> "bad"]
TextPart == [tag |-> "t1", inline |-> FALSE, mime |-> "", data |-> ""]
ImagePart == [tag |-> "i1", inline |-> TRUE, mime |-> "image/jpeg", data |-> "ok"]
PartKinds == {AudioPcm, AudioWav, AudioEmpty, AudioBad, TextPart, ImagePart}
PartLists == UNION {[1..n -> PartKinds] : n \in 0..MaxParts}

FlagValues == {"undefined", "false", "true"}

\* a server content with a model turn of these parts
ContentWith(parts) ==
    [NoContent EXCEPT !.present = TRUE, !.hasParts = TRUE, !.parts = parts]

\* the content messages: a model turn and nothing else
DemuxMessages ==
    {[NoMessage EXCEPT !.serverContent = ContentWith(parts)] : parts \in PartLists}

\* the server contents of the messages that carry several kinds at once
Contents ==
    {NoContent}
    \cup {[ContentWith(<<AudioPcm, TextPart>>) EXCEPT
             !.interrupted = i, !.turnComplete = tc, !.generationComplete = g] :
            i \in FlagValues, tc \in FlagValues, g \in FlagValues}

\* messages of every combination of kinds
MixedMessages ==
    {[sessionResumptionUpdate |-> u, goAway |-> ga, setupComplete |-> sc,
      toolCall |-> tc, toolCallCancellation |-> tcc, serverContent |-> c] :
       u \in {NoUpdate, [present |-> TRUE, resumable |-> FALSE, newHandle |-> Null]},
       ga \in BOOLEAN, sc \in BOOLEAN, tc \in BOOLEAN, tcc \in BOOLEAN,
       c \in Contents}

\* the server sends messages on an established session
NextMsg ==
    \/ Quiet /\ \E r \in Sockets, message \in DemuxMessages :
                  OnMessage(r, message, FALSE)
    \/ Quiet /\ \E r \in Sockets, message \in MixedMessages :
                  OnMessage(r, message, FALSE)

\* an established session that holds the handle of an earlier run
EstablishedWithHandle == Established /\ localStorage = "H1"

SpecMsg == EstablishedWithHandle /\ [][NextMsg]_vars

\* the resumption updates of every shape
StoreUpdates ==
    {[NoMessage EXCEPT !.sessionResumptionUpdate =
         [present |-> TRUE, resumable |-> r, newHandle |-> h]] :
       r \in BOOLEAN, h \in Handles \cup {Null}}

\* The handle store with a durable store that may fail: storage is denied
\* from the start or not, and a write may exceed the quota.
NextStore ==
    \/ Quiet /\ \E m \in Models, c \in Configs : Connect(m, c)
    \/ Quiet /\ \E r \in Sockets : TransportOpen(r)
    \/ Quiet /\ \E r \in Sockets, j \in Jitters : ConnectReject(r, j)
    \/ Quiet /\ \E r \in Sockets, code \in CloseCodes : TransportClose(r, code)
    \/ Quiet /\ \E id \in TimerIds : ReconnectTimer(id)
    \/ Quiet /\ \E r \in Sockets, message \in StoreUpdates, quota \in BOOLEAN :
                  OnMessage(r, message, quota)
    \/ Quiet /\ ClearSession

\* the constructor, in a browser that may deny the durable store
InitStore == InitWith(BOOLEAN)

SpecStore == InitStore /\ [][NextStore]_vars

\* ------------------------------------------------------------ callers
\* The calls of the application that send, and the listeners it has
\* registered: bad is the set of event types with a listener that throws.
AudioChunk == "audio/pcm"
ImageChunk == "image/jpeg"
ChunkLists ==
    {<<>>} \cup {<<a>> : a \in {AudioChunk, ImageChunk}}
           \cup {<<a, b>> : a, b \in {AudioChunk, ImageChunk}}
ResponseLists == {<<>>, <<"r1">>}
SendParts == {<<>>, <<"text">>}
ListenerSets == {{}, {"log"}, {"content"}, {"audio"}}
CallMessages ==
    {[NoMessage EXCEPT !.serverContent = ContentWith(parts)] :
        parts \in {<<TextPart>>, <<AudioPcm, TextPart>>, <<AudioBad>>}}

SendRealtimeInput(bad) ==
    \E chunks \in ChunkLists :
      \E fails \in SUBSET (1 .. Len(chunks)) :
        Apply(sendRealtimeInput([Begin EXCEPT !.bad = bad, !.arg = chunks],
                                chunks, fails),
              "sendRealtimeInput")

SendToolResponse(bad) ==
    \E functionResponses \in ResponseLists, throws \in BOOLEAN :
        Apply(sendToolResponse([Begin EXCEPT !.bad = bad], functionResponses,
                               throws),
              "sendToolResponse")

Send(bad) ==
    \E parts \in SendParts, turnComplete \in BOOLEAN, throws \in BOOLEAN :
        Apply(send([Begin EXCEPT !.bad = bad], parts, turnComplete, throws),
              "send")

OnMessageWith(r, message, bad) ==
    /\ r.st = "open"
    /\ Apply(onmessage([Begin EXCEPT !.msg = message, !.bad = bad], message,
                       FALSE),
             "onmessage")

\* the listeners may throw
NextCalls ==
    \/ Quiet /\ \E m \in Models, c \in Configs : Connect(m, c)
    \/ Quiet /\ Disconnect
    \/ Quiet /\ \E r \in Sockets : TransportOpen(r)
    \/ Quiet /\ \E r \in Sockets : TransportClose(r, NORMAL_CLOSE)
    \/ Quiet /\ \E r \in Sockets, message \in CallMessages,
                   bad \in ListenerSets : OnMessageWith(r, message, bad)
    \/ Quiet /\ \E bad \in ListenerSets : SendRealtimeInput(bad)
    \/ Quiet /\ \E bad \in ListenerSets : SendToolResponse(bad)
    \/ Quiet /\ \E bad \in ListenerSets : Send(bad)

SpecCalls == Init /\ [][NextCalls]_vars

\* ------------------------------------------------------- the useLiveAPI hook
\* handleDisconnect, the hook's listener of 'close': with a handle in the
\* durable store it calls client.connect(model, config) and does not await it
handleDisconnect(s, m, c) ==
    IF s.localStorage # Null
    THEN [connect(s, m, c, FALSE) EXCEPT !.ret = s.ret]
    ELSE s

\* disconnect() of the client with the hook's listener subscribed: the
\* 'close' event is the last statement before the return
disconnectWithListener(s, m, c) ==
    LET d == disconnect(s)
    IN  IF s.status # "disconnected" THEN handleDisconnect(d, m, c) ELSE d

\* the close callback with the hook's listener subscribed: the listener runs
\* inside emit("close"), before the handler decides about a reconnect
oncloseWithListener(s, code, m, c) ==
    LET a == stopKeepAlive(s)
        previousStatus == a.status
        b == handleDisconnect(
                 emit([a EXCEPT !.status = "disconnected"], "close",
                      WithCode(code)),
                 m, c)
    IN  IF /\ shouldReconnectOnClose(b, code, previousStatus)
           /\ (b.sessionHandle # Null \/ b.config # Null)
        THEN reconnect(b)
        ELSE IF code = NORMAL_CLOSE \/ code = GOING_AWAY
        THEN [setSessionHandle(b, Null, FALSE) EXCEPT !.sessionResumable = FALSE]
        ELSE b

\* connect() of the hook: client.disconnect(), then client.connect()
hookConnect(s, m, c) == connect(disconnectWithListener(s, m, c), m, c, FALSE)

\* disconnect() of the hook
hookDisconnect(s, m, c) == disconnectWithListener(s, m, c)

\* the user connects through the hook
HookConnect(m, c) == Apply(hookConnect(Begin, m, c), "connect")

\* the user disconnects through the hook
HookDisconnect(m, c) == Apply(hookDisconnect(Begin, m, c), "disconnect")

\* the transport closed the socket r, with the hook's listener subscribed
TransportCloseHook(r, code, m, c) ==
    /\ r.st \in {"opening", "open", "closing"}
    /\ Apply(oncloseWithListener(
                 swap(Begin, r,
                      [r EXCEPT !.st = IF r.st = "opening" THEN "failed"
                                       ELSE "closed"]),
                 code, m, c),
             "onclose")

\* The client driven through the hook, whose 'close' listener is subscribed,
\* with the user's last call recorded.
NextHook ==
    \/ intent' = "connect" /\ \E m \in Models, c \in Configs : HookConnect(m, c)
    \/ intent' = "disconnect"
          /\ \E m \in Models, c \in Configs : HookDisconnect(m, c)
    \/ Quiet /\ \E r \in Sockets : TransportOpen(r)
    \/ Quiet /\ \E r \in Sockets, j \in Jitters : ConnectReject(r, j)
    \/ Quiet /\ \E r \in Sockets, code \in CloseCodes, m \in Models,
                     c \in Configs : TransportCloseHook(r, code, m, c)
    \/ Quiet /\ \E id \in TimerIds : ReconnectTimer(id)
    \/ Quiet /\ \E r \in Sockets, message \in UpdateMessages :
                  OnMessage(r, message, FALSE)

SpecHook == Init /\ [][NextHook]_vars

\* ------------------------------------------------------------ properties
OpenEvent == [type |-> "open", arg |-> NoArg]
CloseEvent(code) == [type |-> "close", arg |-> WithCode(code)]

\* the step is the rejection of a connect() call made by `kind`
Rejected(kind) ==
    /\ last'.op = "reject"
    /\ \E r \in BagToSet(sockets) :
          /\ r.call = kind
          /\ sockets' = sockets (-) SetToBag({r})

\* the step is the close handler, called with `code`
ClosedWith(code) ==
    /\ last'.op = "onclose"
    /\ last'.emitted[1] = CloseEvent(code)

\* C1: a connect() call without the reconnect flag made while status is
\* 'connecting' or 'connected', and one with the flag made while status is
\* 'connecting', returns false, opens no transport session and changes no
\* field: status, model, config, handle and attempt counter stay as they were.
C1_RejectedConnectIsNoOp ==
    /\ [](\A m \in ModelsP, c \in ConfigsP, isReconnect \in BOOLEAN :
            (status = "connecting" \/ (status = "connected" /\ ~isReconnect))
            => connect(Begin, m, c, isReconnect) = [Begin EXCEPT !.ret = "false"])
    /\ [][(last'.op = "connect" /\ status \in {"connecting", "connected"})
          => /\ last'.ret = "false"
             /\ last'.opened = <<>>
             /\ UNCHANGED <<status, model, config, sessionHandle,
                            sessionResumable, reconnectAttempts, sockets,
                            session, timeouts, intervals>>]_vars

\* a connect() call was rejected while the client was connected to "m2"
C1_Witness ==
    /\ last.op = "connect"
    /\ last.ret = "false"
    /\ status = "connected"
    /\ model = "m2"

\* C2: after every onopen callback status is 'connected', the attempt counter
\* is 0, exactly one heartbeat timer is active (the one the field refers to)
\* and one 'open' event was emitted; after disconnect() no heartbeat timer is
\* active.
C2_OpenStartsOneHeartbeat ==
    /\ last.op = "onopen"
       => /\ status = "connected"
          /\ reconnectAttempts = 0
          /\ keepAliveInterval \in TimerIds
          /\ intervals = {keepAliveInterval}
          /\ last.emitted = <<OpenEvent>>
    /\ last.op \in {"disconnect", "destroy"}
       => /\ intervals = {}
          /\ keepAliveInterval = 0

\* a socket opened while the session of an earlier attempt was still open
C2_Witness ==
    /\ last.op = "onopen"
    /\ \E r \in BagToSet(sockets) : r.st = "open" /\ ~r.held
    /\ \E r \in BagToSet(sockets) : r.st = "open" /\ r.held

\* C3: disconnect() never throws and ends with status 'disconnected', no
\* heartbeat timer and no reconnect timer; it emits exactly one 'close'
\* event, of code 1000, when status was 'connecting' or 'connected', and none
\* when status was 'disconnected' already.
C3_DisconnectIdempotent ==
    [][last'.op = "disconnect"
       => /\ ~last'.threw
          /\ last'.ret = "true"
          /\ status' = "disconnected"
          /\ intervals' = {}
          /\ keepAliveInterval' = 0
          /\ timeouts' = {}
          /\ reconnectTimeout' = 0
          /\ last'.emitted = IF status = "disconnected" THEN <<>>
                             ELSE <<CloseEvent(NORMAL_CLOSE)>>]_vars

\* C4: after disconnect() and until the next connect() call of the
\* application, status stays 'disconnected', no connect attempt is started
\* and no reconnect timer is armed, whatever callbacks still arrive.
C4_DisconnectCancelsRecovery ==
    intent = "disconnect"
    => /\ status = "disconnected"
       /\ timeouts = {}
       /\ last.op # "disconnect" => (last.opened = <<>> /\ last.armed = <<>>)

\* the delay before the n-th retry, written from the formula of the text
RefDelay(n) ==
    LET e == RECONNECT_BASE_DELAY * 2^(n - 1)
    IN  IF e > RECONNECT_MAX_DELAY THEN RECONNECT_MAX_DELAY ELSE e

\* C5 as stated: a closure with a transient code while the client is
\* connected and a model/config or a handle is retained schedules exactly one
\* reconnect timer, its delay in [base*2^(n-1), base*2^(n-1)+jitter_max]
\* capped at max_delay.
C5_Original ==
    [][(/\ \E code \in RECONNECT_CODES : ClosedWith(code)
        /\ status = "connected"
        /\ sessionHandle # Null \/ (model # Null /\ config # Null))
       => /\ Len(last'.armed) = 1
          /\ last'.armed[1].delay >= RefDelay(last'.armed[1].n)
          /\ last'.armed[1].delay <= RefDelay(last'.armed[1].n) + JITTER_MAX]_vars

\* C5: a closure with a transient code while the client is connected arms no
\* timer: the close handler starts one connect attempt with the reconnect
\* flag at once.  A reconnect timer is armed when a connect attempt made by
\* _reconnect is rejected: exactly one per rejection, after the counter was
\* incremented to n, with delay d + jitter where d = min(max_delay,
\* base*2^(n-1)) and 0 <= jitter < jitter_max.
C5_TimerPerFailedAttempt ==
    [][/\ (/\ \E code \in RECONNECT_CODES : ClosedWith(code)
           /\ status = "connected")
          => /\ last'.armed = <<>>
             /\ timeouts' = timeouts \ {reconnectTimeout}
             /\ Len(last'.opened) = 1
             /\ last'.opened[1].isReconnect
             /\ last'.opened[1].model = model
             /\ last'.opened[1].config = config
       /\ Rejected("reconnect")
          => /\ reconnectAttempts' = reconnectAttempts + 1
             /\ Len(last'.armed) = 1
             /\ last'.armed[1].n = reconnectAttempts'
             /\ last'.armed[1].base = RefDelay(reconnectAttempts')
             /\ last'.armed[1].delay >= last'.armed[1].base
             /\ last'.armed[1].delay < last'.armed[1].base + JITTER_MAX
             /\ reconnectTimeout' \in TimerIds \ timeouts
             /\ timeouts' = timeouts \cup {reconnectTimeout'}
       /\ Rejected("user") => last'.armed = <<>> /\ timeouts' = timeouts]_vars

\* the third reconnect attempt in a row was rejected: the delay has doubled twice
C5_Witness ==
    /\ last.op = "reject"
    /\ Len(last.armed) = 1
    /\ last.armed[1].n = 3
    /\ last.armed[1].base = 4 * RECONNECT_BASE_DELAY
    /\ last.armed[1].delay > last.armed[1].base

\* C6 as stated: once the fifth reconnect attempt in a row has failed, the
\* handle is cleared in memory and in the store and no reconnect timer is
\* armed.
C6_Original ==
    (last.op = "reject" /\ last.armed # <<>>
     /\ reconnectAttempts = MAX_RECONNECT_ATTEMPTS)
    => /\ sessionHandle = Null
       /\ localStorage = Null
       /\ sessionStorage = Null
       /\ timeouts = {}

\* C6: the rejection that takes the counter to MAX_RECONNECT_ATTEMPTS still
\* arms a timer and leaves the handle alone; the next run of _reconnect with
\* the client not connected and the counter at or above the ceiling clears
\* the handle in memory and in the store, resets the counter to 0, opens no
\* transport session and arms no timer.
C6_GiveUpAtCeiling ==
    [][/\ (Rejected("reconnect")
           /\ reconnectAttempts + 1 >= MAX_RECONNECT_ATTEMPTS)
          => /\ Len(last'.armed) = 1
             /\ UNCHANGED <<sessionHandle, localStorage, sessionStorage>>
       /\ (/\ \/ last'.op = "timer" /\ status # "connected"
              \/ last'.op = "onclose" /\ last'.reconnect
           /\ reconnectAttempts >= MAX_RECONNECT_ATTEMPTS)
          => /\ last'.ret = "gaveup"
             /\ sessionHandle' = Null
             /\ localStorage' = Null
             /\ sessionStorage' = Null
             /\ reconnectAttempts' = 0
             /\ reconnectTimeout' = 0
             /\ last'.opened = <<>>
             /\ last'.armed = <<>>]_vars

\* the timer armed by the fifth failure fired and recovery was given up with
\* a handle still held
C6_Witness ==
    /\ last.op = "timer"
    /\ last.ret = "gaveup"
    /\ sessionHandle = Null
    /\ localStorage = Null
    /\ reconnectAttempts = 0
    /\ sessionResumable

\* the close handler has just started recovery
RecoveryStarted == last.op = "onclose" /\ last.reconnect

\* nothing of the recovery is left and a manual connect would be accepted
Resting ==
    /\ status = "disconnected"
    /\ timeouts = {}
    /\ reconnectTimeout = 0
    /\ reconnectAttempts = 0
    /\ \A r \in BagToSet(sockets) : r.call = "none"
    /\ \A m \in Models, c \in Configs :
          LET a == connect(Begin, m, c, FALSE)
          IN  a.ok /\ a.ret = "pending" /\ Len(a.opened) = 1

\* C7: when no transport open succeeds any more and rejections and timers
\* happen fairly, a closure that starts recovery leads to a resting state:
\* status 'disconnected', no reconnect timer, counter 0, and a manual
\* connect(model, config) would open a transport session.
C7_RecoveryTerminates == RecoveryStarted ~> Resting

\* recovery was given up after the ceiling and the client rests
C7_Witness ==
    /\ Resting
    /\ last.op = "timer"
    /\ last.ret = "gaveup"
    /\ sockets = EmptyBag

\* C8: when a connect attempt is rejected, status becomes 'disconnected' and
\* the error reaches the caller; a call without the reconnect flag clears
\* the handle (field and stores) and the resumability flag, a call made by
\* _reconnect leaves the handle, the stores and the flag as they were.
C8_ConnectFailure ==
    [][/\ last'.op = "reject" => status' = "disconnected" /\ last'.threw
       /\ Rejected("user")
          => /\ sessionHandle' = Null
             /\ sessionStorage' = Null
             /\ localStorage' = Null
             /\ sessionResumable' = FALSE
             /\ last'.armed = <<>>
       /\ Rejected("reconnect")
          => /\ UNCHANGED <<sessionHandle, sessionStorage, localStorage,
                            sessionResumable>>
             /\ Len(last'.armed) = 1]_vars

\* a reconnect attempt was rejected while a resumable handle is held
C8_Witness ==
    /\ last.op = "reject"
    /\ last.armed # <<>>
    /\ sessionHandle = "H2"
    /\ sessionResumable

\* C9: every accepted connect attempt, with or without the reconnect flag,
\* hands the transport the handle the client holds at that moment, and none
\* exactly when it holds none.
C9_CurrentHandlePassed ==
    /\ \A i \in DOMAIN last.opened : last.opened[i].handle = sessionHandle
    /\ \A m \in Models, c \in Configs, isReconnect \in BOOLEAN :
          LET a == connect(Begin, m, c, isReconnect)
          IN  \A i \in DOMAIN a.opened : a.opened[i].handle = sessionHandle

\* a reconnect attempt passed the handle the server issued last, which is
\* not the one found in the store at construction
C9_Witness ==
    /\ Len(last.opened) = 1
    /\ last.opened[1].isReconnect
    /\ last.opened[1].handle = "H2"
    /\ last.op = "onclose"

\* the decision table, written from the text
RefDecision(code, previousStatus, held, retained) ==
    CASE previousStatus = "connecting" -> FALSE
      [] previousStatus # "connecting"
         /\ code \in {1005, 1006, 1011, 1012, 1013, 1014} -> TRUE
      [] previousStatus # "connecting"
         /\ code \in {1000, 1001} -> FALSE
      [] OTHER -> held \/ retained

C11_NormalClosureEndsSession ==
    [][\A code \in {NORMAL_CLOSE, GOING_AWAY} :
         ClosedWith(code)
         => /\ ~last'.reconnect
            /\ last'.opened = <<>>
            /\ last'.armed = <<>>
            /\ timeouts' \subseteq timeouts
            /\ sessionHandle' = Null
            /\ sessionStorage' = Null
            /\ localStorage' = Null
            /\ sessionResumable' = FALSE]_vars

\* the session the client held was closed with 1001 after the server had
\* issued a handle, and a reconnect timer of an earlier failure is pending
C11_Witness ==
    /\ last.op = "onclose"
    /\ last.emitted = <<CloseEvent(GOING_AWAY)>>
    /\ session = "dead"
    /\ sessionHandle = Null
    /\ timeouts # {}

\* a part is audio: inline data whose media type starts with "audio/"
RefIsAudio(p) == p.inline /\ p.mime \in {"audio/pcm", "audio/wav"}

\* the events of a list of parts, written from the text: one 'audio' event
\* per audio part that `counts`, then one 'content' event of the other parts
RECURSIVE RefAudioEvents(_, _)
RefAudioEvents(parts, counts) ==
    IF parts = <<>> THEN <<>>
    ELSE (IF RefIsAudio(Head(parts)) /\ Head(parts).data \in counts
          THEN <<[type |-> "audio", arg |-> WithData(Head(parts).tag)]>>
          ELSE <<>>)
         \o RefAudioEvents(Tail(parts), counts)

RECURSIVE RefOtherParts(_)
RefOtherParts(parts) ==
    IF parts = <<>> THEN <<>>
    ELSE (IF RefIsAudio(Head(parts)) THEN <<>> ELSE <<Head(parts)>>)
         \o RefOtherParts(Tail(parts))

RefDemux(parts, counts) ==
    RefAudioEvents(parts, counts)
    \o (IF RefOtherParts(parts) # <<>>
        THEN <<[type |-> "content", arg |-> WithParts(RefOtherParts(parts))]>>
        ELSE <<>>)

IsDemuxEvent(e) == e.type \in {"audio", "content"}

\* C12 as stated: a content message emits one 'audio' event per audio part,
\* in array order, then one 'content' event of the non-audio parts if there
\* is any.
C12_Original ==
    (last.op = "onmessage" /\ last.msg \in DemuxMessages)
    => last.emitted = RefDemux(last.msg.serverContent.parts, {"ok", "bad", ""})

\* C12: a content message that carries no tool call and no tool-call
\* cancellation emits one 'audio' event per audio part whose inline data is
\* not empty and decodes, in array order, and then, if a non-audio part
\* exists, one 'content' event of all non-audio parts in their order; an
\* audio part without data, or whose data does not decode, emits nothing.
\* With a tool call or a cancellation the parts emit nothing.
C12_Demultiplex ==
    /\ (last.op = "onmessage" /\ last.msg \in DemuxMessages)
       => last.emitted = RefDemux(last.msg.serverContent.parts, {"ok"})
    /\ last.op = "onmessage"
       => SelectSeq(last.emitted, IsDemuxEvent)
          = IF /\ last.msg.serverContent.present
               /\ ~last.msg.toolCall
               /\ ~last.msg.toolCallCancellation
            THEN RefDemux(last.msg.serverContent.parts, {"ok"})
            ELSE <<>>

\* the parts [audioPart, textPart] gave one 'audio' event, then one 'content'
\* event with the text part alone
C12_Witness ==
    /\ last.op = "onmessage"
    /\ last.msg.serverContent.parts = <<AudioPcm, TextPart>>
    /\ last.emitted = <<[type |-> "audio", arg |-> WithData("a1")],
                        [type |-> "content", arg |-> WithParts(<<TextPart>>)]>>

\* the types of a sequence of events
Types(events) == [i \in DOMAIN events |-> events[i].type]

\* the events of the kinds that come before the tool call, in the fixed order
RefHead(message) ==
    (IF message.sessionResumptionUpdate.present
     THEN <<"sessionresumptionupdate">> ELSE <<>>)
    \o (IF message.goAway THEN <<"goaway">> ELSE <<>>)
    \o (IF message.setupComplete THEN <<"setupcomplete">> ELSE <<>>)

ContentTypes ==
    {"interrupted", "turncomplete", "generationcomplete", "audio", "content"}

\* C13: the events of a message come in the order resumption update, go-away,
\* setup complete, tool call, tool-call cancellation, content events; after
\* 'toolcall' nothing further is emitted, and a cancellation without a tool
\* call emits 'toolcallcancellation' and no content event.  The events of a
\* step are those of one message.
C13_FixedOrder ==
    last.op = "onmessage"
    => LET types == Types(last.emitted)
           head == RefHead(last.msg)
           rest == SubSeq(types, Len(head) + 1, Len(types))
       IN  /\ Len(types) >= Len(head)
           /\ SubSeq(types, 1, Len(head)) = head
           /\ IF last.msg.toolCall THEN rest = <<"toolcall">>
              ELSE IF last.msg.toolCallCancellation
              THEN rest = <<"toolcallcancellation">>
              ELSE /\ \A i \in DOMAIN rest : rest[i] \in ContentTypes
                   /\ ~last.msg.serverContent.present => rest = <<>>

\* a message with a resumption update, a go-away, a setup complete, a tool
\* call, a cancellation and a content gave four events, the tool call last
C13_Witness ==
    /\ last.op = "onmessage"
    /\ last.msg.toolCall
    /\ last.msg.toolCallCancellation
    /\ last.msg.serverContent.present
    /\ last.msg.serverContent.interrupted = "true"
    /\ Types(last.emitted) = <<"sessionresumptionupdate", "goaway",
                               "setupcomplete", "toolcall">>

\* what the handle store returns: _getSessionHandle on the stores as they are
StoreGet == getSessionHandle(localStorage, sessionStorage, storageDenied)

IsResumptionEvent(e) == e.type = "sessionresumptionupdate"

\* C14 as stated: after an update marked non-resumable the handle is null in
\* memory and in the store and the flag is false; after an update marked
\* resumable with a new handle H the handle is H in memory and in the store
\* and the flag is true; each update emits one 'sessionresumptionupdate'.
C14_Original ==
    (last.op = "onmessage" /\ last.msg.sessionResumptionUpdate.present)
    => LET update == last.msg.sessionResumptionUpdate
       IN  /\ ~update.resumable
              => /\ sessionHandle = Null
                 /\ StoreGet = Null
                 /\ ~sessionResumable
           /\ (update.resumable /\ update.newHandle # Null)
              => /\ sessionHandle = update.newHandle
                 /\ StoreGet = update.newHandle
                 /\ sessionResumable
           /\ SelectSeq(last.emitted, IsResumptionEvent)
              = <<[type |-> "sessionresumptionupdate", arg |-> WithUpdate(update)]>>

\* C14: after an update marked non-resumable the handle is null in memory, in
\* the fallback map and in what the store returns, and the flag is false.
\* After an update marked resumable with a new handle H the handle is H in
\* memory and the flag is true; when H differs from the handle held it is
\* written to the fallback map and to the durable store, and when that
\* durable write fails the durable store keeps what it held; when H is the
\* handle held nothing is written.  Each update emits exactly one
\* 'sessionresumptionupdate' event.
C14_ResumptionUpdate ==
    [][(last'.op = "onmessage" /\ last'.msg.sessionResumptionUpdate.present)
       => LET update == last'.msg.sessionResumptionUpdate
          IN  /\ ~update.resumable
                 => /\ sessionHandle' = Null
                    /\ sessionStorage' = Null
                    /\ StoreGet' = Null
                    /\ ~sessionResumable'
              /\ (update.resumable /\ update.newHandle # Null)
                 => /\ sessionHandle' = update.newHandle
                    /\ sessionResumable'
                    /\ IF sessionHandle = update.newHandle
                       THEN /\ UNCHANGED <<localStorage, sessionStorage>>
                            /\ ~last'.warned
                       ELSE /\ sessionStorage' = update.newHandle
                            /\ IF last'.warned
                               THEN localStorage' = localStorage
                               ELSE /\ localStorage' = update.newHandle
                                    /\ StoreGet' = update.newHandle
              /\ SelectSeq(last'.emitted, IsResumptionEvent)
                 = <<[type |-> "sessionresumptionupdate", arg |-> WithUpdate(update)]>>
              /\ ~last'.threw]_vars

\* the durable write of the new handle H2 failed: the durable store still
\* holds H1, the field and the fallback map hold H2
C14_Witness ==
    /\ last.op = "onmessage"
    /\ last.msg.sessionResumptionUpdate.resumable
    /\ last.warned
    /\ sessionHandle = "H2"
    /\ sessionStorage = "H2"
    /\ localStorage = "H1"
    /\ sessionResumable

\* C17: a handle write whose durable write fails raises nothing, and after
\* every write, failed or not, getSessionInfo().handle and the fallback map
\* hold the value written (both are empty after a clear).
C17_StoreFailureFallsBack ==
    /\ \A handle \in Handles \cup {Null}, quota \in BOOLEAN :
          LET a == setSessionHandle(Begin, handle, quota)
          IN  /\ getSessionInfo(a).handle = handle
              /\ a.sessionStorage = handle
              /\ ~a.threw /\ ~a.exc /\ a.ok
              /\ a.warned <=> (storageDenied \/ (handle # Null /\ quota))
    /\ last.warned
       => /\ getSessionInfo(Begin).handle = sessionStorage
          /\ last.op \in {"onmessage", "clearSession", "onclose", "timer"}
             => ~last.threw
          /\ last.op = "onmessage"
             => sessionHandle =
                  IF last.msg.sessionResumptionUpdate.resumable
                  THEN last.msg.sessionResumptionUpdate.newHandle
                  ELSE Null
          /\ last.op = "clearSession" => sessionHandle = Null

\* clearSession() was called with the durable store denied and a handle held
\* in the fallback map alone
C17_Witness ==
    /\ last.op = "clearSession"
    /\ last.warned
    /\ storageDenied
    /\ sessionHandle = Null
    /\ sessionStorage = Null
    /\ sessionResumable = FALSE
    /\ status = "connected"

\* C15: an exception raised while a message is classified or inside a
\* listener never leaves the message handler: the handler completes, status,
\* session and timers stay, nothing is closed or opened and no reconnect is
\* started.
C15_ExceptionStaysInHandler ==
    [][last'.op = "onmessage"
       => /\ ~last'.threw
          /\ last'.opened = <<>>
          /\ ~last'.reconnect
          /\ last'.armed = <<>>
          /\ UNCHANGED <<status, session, sockets, timeouts, intervals,
                         reconnectTimeout, keepAliveInterval,
                         reconnectAttempts>>]_vars

SendOps == {"sendRealtimeInput", "sendToolResponse", "send"}

\* C16: the three send methods never throw and never change status, handle
\* or timers; they call the transport only when connected with a session;
\* sendRealtimeInput attempts every chunk once, in order, whatever the
\* transport throws.
C16_SendNeverThrows ==
    [][last'.op \in SendOps
       => /\ ~last'.threw
          /\ UNCHANGED <<status, session, sockets, sessionHandle,
                         sessionResumable, sessionStorage, localStorage,
                         timeouts, intervals, reconnectTimeout,
                         keepAliveInterval, reconnectAttempts>>
          /\ (status # "connected" \/ session = "null") => last'.sent = <<>>
          /\ Len(last'.sent) <= 1 \/ last'.op = "sendRealtimeInput"
          /\ last'.op = "sendRealtimeInput" /\ last'.sent # <<>>
             => /\ Len(last'.sent) = Len(last'.arg)
                /\ \A i \in 1 .. Len(last'.arg) :
                      last'.sent[i].payload = last'.arg[i]]_vars

\* C18: at most one reconnect timer and at most one heartbeat timer are
\* pending, and a pending timer is the one the client's field refers to (no
\* orphaned timer).
C18_OneTimerOfEachKind ==
    /\ Cardinality(timeouts) <= 1
    /\ Cardinality(intervals) <= 1
    /\ timeouts \subseteq {reconnectTimeout}
    /\ intervals \subseteq {keepAliveInterval}

\* C19: a null resumption handle implies a false resumability flag.
C19_NullHandleNotResumable == sessionHandle = Null => ~sessionResumable

\* C20: the attempt counter stays in 0 .. MAX_RECONNECT_ATTEMPTS and is 0
\* after the transport opened; it grows by exactly 1 when a connect attempt
\* made by _reconnect is rejected and in no other step.
C20_CounterBounded ==
    /\ reconnectAttempts \in 0 .. MAX_RECONNECT_ATTEMPTS
    /\ last.op = "onopen" => reconnectAttempts = 0
    /\ last.op = "reject" /\ last.armed # <<>>
       => last.armed[1].n = reconnectAttempts

\* C21: a heartbeat timer is active only when status is 'connected': none is
\* active when status is 'connecting' or 'disconnected'; when status is
\* 'connected' there is exactly one, the one the field refers to, unless a
\* tick whose send threw has cancelled it.
C21_HeartbeatFollowsStatus ==
    /\ status = "connected"
       => /\ Cardinality(intervals) <= 1
          /\ intervals \subseteq {keepAliveInterval}
          /\ last.op = "onopen" => Cardinality(intervals) = 1
    /\ status # "connected" => intervals = {}

\* C22: status becomes 'connecting' only through an accepted connect call,
\* 'connected' only from 'connecting' on a successful open, and
\* 'disconnected' only through a failed connect, a transport close or
\* disconnect().
C22_DocumentedTransitions ==
    [][/\ (status' = "connecting" /\ status # "connecting")
          => /\ last'.op \in {"connect", "onclose", "timer"}
             /\ Len(last'.opened) = 1
       /\ (status' = "connected" /\ status # "connected")
          => /\ status = "connecting"
             /\ last'.op = "onopen"
       /\ (status' = "disconnected" /\ status # "disconnected")
          => last'.op \in {"reject", "onclose", "disconnect", "destroy"}]_vars

\* the connect attempts of the bag b that await client.live.connect()
Awaited(b) == {r \in BagToSet(b) : r.call # "none"}

\* C23: at most one connect attempt awaits its transport open at any time,
\* and the outcome of an attempt changes neither the status nor the held
\* session nor the reconnect timer while another attempt is awaited.
C23_OneAttemptAtATime ==
    [][/\ Cardinality(Awaited(sockets')) <= 1
       /\ \A r \in Awaited(sockets') : CopiesIn(r, sockets') = 1
       /\ (last'.op \in {"reject", "onopen"} /\ Awaited(sockets') # {})
          => /\ status' = status
             /\ session' = session
             /\ timeouts' = timeouts
             /\ reconnectTimeout' = reconnectTimeout]_vars

\* the transport sessions of the bag b that are open and were not closed by
\* the client
OpenIn(b) == {r \in BagToSet(b) : r.st = "open"}

\* C24: at most one transport session is open, an open session is the one
\* the session field holds, and the close callback of a session other than
\* the held one neither moves the client out of 'connected' nor clears the
\* handle.
C24_SingleSession ==
    [][/\ Cardinality(OpenIn(sockets')) <= 1
       /\ \A r \in OpenIn(sockets') : r.held /\ CopiesIn(r, sockets') = 1
       /\ (/\ last'.op = "onclose"
           /\ status = "connected"
           /\ \E r \in OpenIn(sockets) : r.held /\ r \in OpenIn(sockets'))
          => /\ status' = "connected"
             /\ sessionHandle' = sessionHandle]_vars

\* C25: the timer armed after the n-th failed reconnect attempt, n in
\* 1 .. MAX_RECONNECT_ATTEMPTS, has delay min(30000, 1000 * 2^(n-1)) plus a
\* jitter in [0, 1000); that minimum is non-decreasing in n and at most the
\* cap; and no earlier retry timer is pending once the new one is armed.
C25_BackoffDelay ==
    [][Rejected("reconnect")
       => /\ RECONNECT_BASE_DELAY = 1000 /\ RECONNECT_MAX_DELAY = 30000
          /\ \A n \in 1 .. MAX_RECONNECT_ATTEMPTS :
                /\ baseDelay(n) = RefDelay(n)
                /\ baseDelay(n) <= RECONNECT_MAX_DELAY
                /\ n > 1 => baseDelay(n - 1) <= baseDelay(n)
          /\ Len(last'.armed) = 1
          /\ last'.armed[1].n = reconnectAttempts + 1
          /\ last'.armed[1].n \in 1 .. MAX_RECONNECT_ATTEMPTS
             => /\ last'.armed[1].base = RefDelay(last'.armed[1].n)
                /\ last'.armed[1].delay - last'.armed[1].base \in 0 .. 999
          /\ timeouts' = {reconnectTimeout'}]_vars

\* the flag events of a server content whose flags in `set` count as set
RefFlagEvents(sc, set) ==
    (IF sc.interrupted \in set THEN <<"interrupted">> ELSE <<>>)
    \o (IF sc.turnComplete \in set THEN <<"turncomplete">> ELSE <<>>)
    \o (IF sc.generationComplete \in set THEN <<"generationcomplete">> ELSE <<>>)

\* the events of the content of the message handled last
ContentEvents ==
    LET types == Types(last.emitted)
    IN  SubSeq(types, Len(RefHead(last.msg)) + 1, Len(types))

\* C26: a content message emits 'interrupted', 'turncomplete' and
\* 'generationcomplete', each exactly when its own flag is true and none for
\* a flag that is absent or false, in that order and before the audio and
\* content events of the message.
C26_FlagEvents ==
    (/\ last.op = "onmessage"
     /\ last.msg.serverContent.present
     /\ ~last.msg.toolCall
     /\ ~last.msg.toolCallCancellation)
    => ContentEvents
       = RefFlagEvents(last.msg.serverContent, {"true"})
         \o Types(RefDemux(last.msg.serverContent.parts, {"ok"}))

\* C27: a resumption update clears the handle and the flag only when it is
\* marked non-resumable; one marked resumable never clears a held handle and
\* leaves the handle unchanged when it carries no new handle; one marked
\* resumable whose new handle is the current handle writes no store.
C27_UpdateFrame ==
    [][(last'.op = "onmessage" /\ last'.msg.sessionResumptionUpdate.present)
       => LET update == last'.msg.sessionResumptionUpdate
          IN  /\ (sessionHandle # Null /\ sessionHandle' = Null)
                 => ~update.resumable
              /\ (sessionResumable /\ ~sessionResumable') => ~update.resumable
              /\ (update.resumable /\ update.newHandle = Null)
                 => UNCHANGED <<sessionHandle, localStorage, sessionStorage>>
              /\ (update.resumable /\ update.newHandle = sessionHandle)
                 => /\ UNCHANGED <<sessionHandle, localStorage, sessionStorage>>
                    /\ ~last'.warned]_vars

IsDecodableAudio(p) == RefIsAudio(p) /\ p.data = "ok"

IsAudioEvent(e) == e.type = "audio"

\* C28: when an audio part of a message fails to decode, every other audio
\* part of the message still gives its 'audio' event, in array order, and
\* the one 'content' event of the non-audio parts is still emitted after
\* them.
C28_DecodeFailureIsLocal ==
    (/\ last.op = "onmessage"
     /\ last.msg \in DemuxMessages
     /\ \E i \in DOMAIN last.msg.serverContent.parts :
           last.msg.serverContent.parts[i] = AudioBad)
    => LET parts == last.msg.serverContent.parts
           decodable == SelectSeq(parts, IsDecodableAudio)
           audio == SelectSeq(last.emitted, IsAudioEvent)
           others == RefOtherParts(parts)
       IN  /\ ~last.threw
           /\ Len(audio) = Len(decodable)
           /\ \A i \in DOMAIN audio : audio[i].arg = WithData(decodable[i].tag)
           /\ SubSeq(last.emitted, 1, Len(audio)) = audio
           /\ IF others = <<>> THEN last.emitted = audio
              ELSE last.emitted
                   = Append(audio, [type |-> "content", arg |-> WithParts(others)])

\* an audio part that does not decode stood between two that do, before a
\* text part: two 'audio' events and the 'content' event
C28_Witness ==
    /\ last.op = "onmessage"
    /\ MaxParts >= 3
    /\ \E p \in {TextPart, ImagePart} :
          /\ last.msg.serverContent.parts \in
                {<<AudioBad, AudioPcm, p>>, <<AudioPcm, AudioBad, p>>}
          /\ Types(last.emitted) = <<"audio", "content">>

HeldIn(b, st) == {r \in BagToSet(b) : r.held /\ r.st = st}

\* the close callback of the session forceReconnect() closed
ForcedClose ==
    /\ last'.op = "onclose"
    /\ status = "connected"
    /\ HeldIn(sockets, "closing") # {}
    /\ HeldIn(sockets', "closing") = {}

\* C29: forceReconnect() changes nothing unless the client is connected and
\* holds a session; when it is, the held session is closed, and whatever
\* close code the transport reports for that closure, the close handler
\* starts a reconnect attempt with the retained model and config and the
\* resumption handle, which it leaves in place.
C29_ForcedCloseReconnects ==
    [][/\ (last'.op = "forceReconnect" /\ ~(status = "connected" /\ session # "null"))
          => UNCHANGED <<status, session, sockets, sessionHandle,
                         sessionResumable, reconnectAttempts, reconnectTimeout,
                         keepAliveInterval, timeouts, intervals, model, config,
                         localStorage, sessionStorage>>
       /\ (last'.op = "forceReconnect" /\ status = "connected"
             /\ HeldIn(sockets, "open") # {})
          => /\ HeldIn(sockets', "open") = {}
             /\ HeldIn(sockets', "closing") # {}
             /\ status' = "connected"
             /\ sessionHandle' = sessionHandle
       /\ ForcedClose
          => /\ sessionHandle' = sessionHandle
             /\ Len(last'.opened) = 1
             /\ last'.opened[1].model = model
             /\ last'.opened[1].config = config
             /\ last'.opened[1].handle = sessionHandle
             /\ last'.opened[1].isReconnect
      ]_vars

\* C30: with the hook's listener subscribed to 'close', a disconnect by the
\* user leaves the client 'disconnected' and no connect attempt is started
\* until the user connects again, and no 'close' event makes the listener
\* and the client's own reconnect logic start more than one attempt
\* together.
C30_HookRecovery ==
    [][/\ last'.op = "disconnect"
          => status' = "disconnected" /\ last'.opened = <<>>
       /\ intent' = "disconnect" => last'.opened = <<>>
       /\ last'.op = "onclose" => Len(last'.opened) <= 1
      ]_vars

====
